---------------------------- MODULE Spec2Model ----------------------------
(***************************************************************************)
(* A model of the student management program of src/main.py: the Database  *)
(* class over the SQLite table `students` (the Record Store) and the       *)
(* Tkinter handlers of StudentManagementApp (the Presentation Layer).      *)
(*                                                                         *)
(* Text is a sequence of one-character strings, so that the LIKE match,    *)
(* the CSV writer and float()/str() are computed character by character.   *)
(* A grade is held in tenths (995 is 99.5): the REAL values with at most   *)
(* one decimal digit, whose str() is "<int>.<digit>".                      *)
(***************************************************************************)
EXTENDS Integers, Sequences, FiniteSets, TLC

VARIABLES
    table,              \* rows of `students`, in rowid order
    seq,                \* sqlite_sequence.seq of `students` (AUTOINCREMENT)
    op,                 \* the last event: a store call or a GUI handler
    exc,                \* the exception the last event ended with, or "none"
    rows,               \* the rows the last store query returned
    file,               \* the characters the last export wrote
    tree,               \* the Treeview's items, top to bottom
    selection,          \* index in tree of the selected item, 0 when none
    first_name_entry,
    last_name_entry,
    course_entry,
    grade_entry,
    search_entry,
    dialog              \* the message box the last handler showed, or "none"

store == <<table, seq>>
form  == <<first_name_entry, last_name_entry, course_entry, grade_entry>>
gui   == <<tree, selection, first_name_entry, last_name_entry, course_entry,
           grade_entry, search_entry, dialog>>
vars  == <<table, seq, op, exc, rows, file, tree, selection, first_name_entry,
           last_name_entry, course_entry, grade_entry, search_entry, dialog>>

----------------------------------------------------------------------------
(* Bounds of the model *)

\* Largest id the store hands out before the model stops adding.
MaxId == 2

(* Program constants *)

\* CHECK(grade >= 0 AND grade <= 100), and 0 <= grade <= 100 in the handlers.
GradeMin == 0
GradeMax == 100
\* Tenths per unit of grade (the model's resolution of a REAL).
Tenths == 10

----------------------------------------------------------------------------
(* Text *)

Empty == <<>>
\* Python's None, SQL NULL: a value that is no text.
NULL == <<"NULL">>

UpperChars == <<"A","B","C","D","E","F","G","H","I","J","K","L","M",
                "N","O","P","Q","R","S","T","U","V","W","X","Y","Z">>
LowerChars == <<"a","b","c","d","e","f","g","h","i","j","k","l","m",
                "n","o","p","q","r","s","t","u","v","w","x","y","z">>
DigitChars == <<"0","1","2","3","4","5","6","7","8","9">>

\* ASCII case folding, as SQLite's LIKE folds it.
Lower(c) ==
    IF \E i \in 1..Len(UpperChars) : UpperChars[i] = c
    THEN LowerChars[CHOOSE i \in 1..Len(UpperChars) : UpperChars[i] = c]
    ELSE c

IsDigit(c) == \E i \in 1..Len(DigitChars) : DigitChars[i] = c
DigitVal(c) == (CHOOSE i \in 1..Len(DigitChars) : DigitChars[i] = c) - 1

RECURSIVE NatStr(_)
\* str(n) for an int n >= 0
NatStr(n) ==
    IF n < 10 THEN <<DigitChars[n + 1]>>
    ELSE NatStr(n \div 10) \o <<DigitChars[(n % 10) + 1]>>

\* str(n) for an int
IntStr(n) == IF n < 0 THEN <<"-">> \o NatStr(-n) ELSE NatStr(n)

\* str(g) for a float g held in tenths: 500 is "50.0", 995 is "99.5"
FloatStr(g) ==
    IF g < 0 THEN <<"-">> \o NatStr((-g) \div Tenths) \o <<".">> \o NatStr((-g) % Tenths)
    ELSE NatStr(g \div Tenths) \o <<".">> \o NatStr(g % Tenths)

RECURSIVE DigitsVal(_)
\* The value of a non-empty sequence of digits
DigitsVal(s) ==
    IF Len(s) = 1 THEN DigitVal(s[1])
    ELSE DigitsVal(SubSeq(s, 1, Len(s) - 1)) * 10 + DigitVal(s[Len(s)])

AllDigits(s) == Len(s) > 0 /\ \A i \in 1..Len(s) : IsDigit(s[i])

\* float(s) on the inputs the model types: [sign] digits ["." [digit]], and "nan".
\* ok is FALSE where float() raises ValueError; val is in tenths.
FloatParseUnsigned(s) ==
    LET dot == IF \E i \in 1..Len(s) : s[i] = "."
               THEN CHOOSE i \in 1..Len(s) : s[i] = "." ELSE 0
        ip  == IF dot = 0 THEN s ELSE SubSeq(s, 1, dot - 1)
        fp  == IF dot = 0 THEN Empty ELSE SubSeq(s, dot + 1, Len(s))
    IN  IF AllDigits(ip) /\ (fp = Empty \/ (Len(fp) = 1 /\ IsDigit(fp[1])))
        THEN [ok |-> TRUE, nan |-> FALSE,
              val |-> DigitsVal(ip) * Tenths + (IF fp = Empty THEN 0 ELSE DigitVal(fp[1]))]
        ELSE [ok |-> FALSE, nan |-> FALSE, val |-> 0]

FloatParse(s) ==
    IF s = <<"n","a","n">> THEN [ok |-> TRUE, nan |-> TRUE, val |-> 0]
    ELSE IF s # Empty /\ s[1] = "-"
    THEN LET p == FloatParseUnsigned(Tail(s))
         IN  [ok |-> p.ok, nan |-> FALSE, val |-> 0 - p.val]
    ELSE IF s # Empty /\ s[1] = "+" THEN FloatParseUnsigned(Tail(s))
    ELSE FloatParseUnsigned(s)

\* The integer an INTEGER column reads from the text of an id (type affinity)
IntParse(s) == DigitsVal(s)

----------------------------------------------------------------------------
(* The Record Store: class Database *)

Row(id, first_name, last_name, course, grade) ==
    [id |-> id, first_name |-> first_name, last_name |-> last_name,
     course |-> course, grade |-> grade]

Ids(t) == {t[i].id : i \in 1..Len(t)}

SetMax(S) == IF S = {} THEN 0 ELSE CHOOSE m \in S : \A n \in S : n <= m

\* The column constraints of CREATE TABLE students
NotNullOk(first_name, last_name, course) ==
    first_name # NULL /\ last_name # NULL /\ course # NULL

CheckGradeOk(grade) == grade >= GradeMin * Tenths /\ grade <= GradeMax * Tenths

ConstraintsOk(first_name, last_name, course, grade) ==
    NotNullOk(first_name, last_name, course) /\ CheckGradeOk(grade)

\* A faulty variant: the id is the number of rows plus one
NextRowidByCount(t, sq) == Len(t) + 1

\* id INTEGER PRIMARY KEY AUTOINCREMENT: one more than the largest rowid ever used
NextRowid(t, sq) == SetMax(Ids(t) \cup {sq}) + 1

\* INSERT INTO students (...) VALUES (?, ?, ?, ?)
InsertRow(t, sq, first_name, last_name, course, grade) ==
    Append(t, Row(NextRowid(t, sq), first_name, last_name, course, grade))

\* A faulty variant: the UPDATE without its WHERE clause
UpdateRowsNoWhere(t, student_id, first_name, last_name, course, grade) ==
    [i \in 1..Len(t) |-> Row(t[i].id, first_name, last_name, course, grade)]

\* UPDATE students SET ... WHERE id = ?
UpdateRows(t, student_id, first_name, last_name, course, grade) ==
    [i \in 1..Len(t) |->
        IF t[i].id = student_id
        THEN Row(t[i].id, first_name, last_name, course, grade)
        ELSE t[i]]

\* A faulty variant: the DELETE removes the rows up to the id
DeleteRowsUpTo(t, student_id) == SelectSeq(t, LAMBDA r : r.id > student_id)

\* DELETE FROM students WHERE id = ?
DeleteRows(t, student_id) == SelectSeq(t, LAMBDA r : r.id # student_id)

\* SELECT * FROM students: every row, in rowid order
SelectAll(t) == t

RECURSIVE Like(_, _)
\* SQLite's  s LIKE p : % is any run of characters, _ is any one character,
\* any other character matches itself up to ASCII case; there is no escape.
Like(p, s) ==
    IF p = Empty THEN s = Empty
    ELSE IF Head(p) = "%"
    THEN Like(Tail(p), s) \/ (s # Empty /\ Like(p, Tail(s)))
    ELSE /\ s # Empty
         /\ (Head(p) = "_" \/ Lower(Head(p)) = Lower(Head(s)))
         /\ Like(Tail(p), Tail(s))

\* f'%{search_text}%'
LikePattern(search_text) == <<"%">> \o search_text \o <<"%">>

\* SELECT * FROM students WHERE first_name LIKE ? OR last_name LIKE ?
SelectLike(t, search_text) ==
    SelectSeq(t, LAMBDA r : \/ Like(LikePattern(search_text), r.first_name)
                            \/ Like(LikePattern(search_text), r.last_name))

(* csv.writer(file): the excel dialect *)

\* str() of a cell: an int id, a float grade, or text
CellText(r) == <<IntStr(r.id), r.first_name, r.last_name, r.course, FloatStr(r.grade)>>

\* The header row: ["ID", "First Name", "Last Name", "Course", "Grade"]
HeaderCells ==
    << <<"I","D">>,
       <<"F","i","r","s","t"," ","N","a","m","e">>,
       <<"L","a","s","t"," ","N","a","m","e">>,
       <<"C","o","u","r","s","e">>,
       <<"G","r","a","d","e">> >>

\* QUOTE_MINIMAL: a field is quoted when it holds the delimiter, the quote
\* character or a character of the line terminator
NeedsQuote(s) == \E i \in 1..Len(s) : s[i] \in {",", "\"", "\r", "\n"}

RECURSIVE DoubleQuotes(_)
\* doublequote = True: each quote character inside a quoted field is written twice
DoubleQuotes(s) ==
    IF s = Empty THEN Empty
    ELSE (IF Head(s) = "\"" THEN <<"\"", "\"">> ELSE <<Head(s)>>) \o DoubleQuotes(Tail(s))

\* A faulty variant: the field written as it is
CsvFieldUnquoted(s) == s

CsvField(s) == IF NeedsQuote(s) THEN <<"\"">> \o DoubleQuotes(s) \o <<"\"">> ELSE s

RECURSIVE JoinFields(_)
JoinFields(cells) ==
    IF Len(cells) = 1 THEN CsvField(cells[1])
    ELSE CsvField(cells[1]) \o <<",">> \o JoinFields(Tail(cells))

\* writer.writerow(cells): the fields, comma separated, then "\r\n"
CsvLine(cells) == JoinFields(cells) \o <<"\r", "\n">>

RECURSIVE CsvLines(_)
\* writer.writerows(rows)
CsvLines(t) == IF t = <<>> THEN Empty ELSE CsvLine(CellText(Head(t))) \o CsvLines(Tail(t))

\* What Database.export_to_csv writes to the file
CsvFile(t) == CsvLine(HeaderCells) \o CsvLines(SelectAll(t))

----------------------------------------------------------------------------
(* The initial state: Database() on a new file, then load_students() *)

Event(name, args) == [name |-> name, args |-> args]

Init ==
    /\ table = <<>>
    /\ seq = 0
    /\ op = Event("init", <<>>)
    /\ exc = "none"
    /\ rows = <<>>
    /\ file = Empty
    /\ tree = <<>>
    /\ selection = 0
    /\ first_name_entry = Empty
    /\ last_name_entry = Empty
    /\ course_entry = Empty
    /\ grade_entry = Empty
    /\ search_entry = Empty
    /\ dialog = "none"

----------------------------------------------------------------------------
(* The methods of Database, as the statements they execute *)

\* cursor.execute("INSERT ..."); conn.commit(). A row that breaks a column
\* constraint raises sqlite3.IntegrityError and is not inserted.
DbAdd(first_name, last_name, course, grade) ==
    IF ConstraintsOk(first_name, last_name, course, grade)
    THEN /\ table' = InsertRow(table, seq, first_name, last_name, course, grade)
         /\ seq' = NextRowid(table, seq)
         /\ exc' = "none"
    ELSE /\ UNCHANGED store
         /\ exc' = "IntegrityError"

\* cursor.execute("UPDATE ..."); conn.commit(). The constraints are checked on
\* the rows the WHERE clause selects: with none selected nothing is checked.
DbUpdate(student_id, first_name, last_name, course, grade) ==
    IF student_id \in Ids(table) /\ ~ConstraintsOk(first_name, last_name, course, grade)
    THEN /\ UNCHANGED store
         /\ exc' = "IntegrityError"
    ELSE /\ table' = UpdateRows(table, student_id, first_name, last_name, course, grade)
         /\ seq' = seq
         /\ exc' = "none"

\* cursor.execute("DELETE ..."); conn.commit()
DbDelete(student_id) ==
    /\ table' = DeleteRows(table, student_id)
    /\ seq' = seq
    /\ exc' = "none"

\* open(file_path, 'w') and the writer's rows; opened is FALSE when the
\* destination cannot be opened for writing (OSError, nothing written).
DbExport(opened) ==
    /\ UNCHANGED store
    /\ IF opened
       THEN file' = CsvFile(table) /\ exc' = "none"
       ELSE file' = Empty /\ exc' = "OSError"

----------------------------------------------------------------------------
(* The store called directly *)

\* Two records that differ in every field
ValidArgs ==
    { << <<"A","n">>, <<"L">>, <<"m">>, GradeMin * Tenths >>,
      << <<"b">>,     <<"N">>, <<"c">>, GradeMax * Tenths >> }

\* Each of them with one field replaced by a value the data model forbids
BadArgs ==
    UNION { { <<Empty, a[2], a[3], a[4]>>,
              <<a[1], Empty, a[3], a[4]>>,
              <<a[1], a[2], Empty, a[4]>>,
              <<NULL, a[2], a[3], a[4]>>,
              <<a[1], a[2], a[3], GradeMin * Tenths - 1>>,
              <<a[1], a[2], a[3], GradeMax * Tenths + 1>>,
              <<a[1], a[2], a[3], (GradeMin - 1) * Tenths>>,
              <<a[1], a[2], a[3], (GradeMax + 1) * Tenths>> } : a \in ValidArgs }

Args == ValidArgs \cup BadArgs

Database_add_student(a) ==
    /\ NextRowid(table, seq) <= MaxId
    /\ op' = Event("Database.add_student", a)
    /\ DbAdd(a[1], a[2], a[3], a[4])
    /\ rows' = <<>>
    /\ file' = Empty
    /\ UNCHANGED gui

Database_update_student(student_id, a) ==
    /\ op' = Event("Database.update_student", <<student_id>> \o a)
    /\ DbUpdate(student_id, a[1], a[2], a[3], a[4])
    /\ rows' = <<>>
    /\ file' = Empty
    /\ UNCHANGED gui

Database_delete_student(student_id) ==
    /\ op' = Event("Database.delete_student", <<student_id>>)
    /\ DbDelete(student_id)
    /\ rows' = <<>>
    /\ file' = Empty
    /\ UNCHANGED gui

Database_get_all_students ==
    /\ op' = Event("Database.get_all_students", <<>>)
    /\ rows' = SelectAll(table)
    /\ exc' = "none"
    /\ file' = Empty
    /\ UNCHANGED <<store, gui>>

StoreNext ==
    \/ \E a \in Args : Database_add_student(a)
    \/ \E student_id \in 1..(MaxId + 1), a \in Args : Database_update_student(student_id, a)
    \/ \E student_id \in 1..(MaxId + 1) : Database_delete_student(student_id)
    \/ Database_get_all_students

StoreSpec == Init /\ [][StoreNext]_vars

----------------------------------------------------------------------------
(* The store's queries called directly, on a table that earlier calls left *)

\* Longest text of a field drawn for an export
MaxLen == 2
\* Most rows of a table drawn for a query
MaxRows == 2

Database_search_students(search_text) ==
    /\ op' = Event("Database.search_students", <<search_text>>)
    /\ rows' = SelectLike(table, search_text)
    /\ exc' = "none"
    /\ file' = Empty
    /\ UNCHANGED <<store, gui>>

Database_export_to_csv(opened) ==
    /\ op' = Event("Database.export_to_csv", <<opened>>)
    /\ DbExport(opened)
    /\ rows' = <<>>
    /\ UNCHANGED gui

\* The names of the records a search is tried on, by id
SeedNames ==
    << << <<"A","n","n","a">>, <<"L","e","e">> >>,
       << <<"I","v","a","n">>, <<"N","g">> >>,
       << <<"B","o","b">>,     <<"S","m","i","t","h">> >>,
       << <<"a","_","b">>,     <<"5","%">> >>,
       << <<"A","N">>,         <<"O">> >> >>

SearchTexts ==
    { Empty, <<"A","n">>, <<"a","n">>, <<"n","n">>, <<"o","b">>, <<"x">>,
      <<"_">>, <<"%">>, <<"n","_">>, <<"a","%","n">> }

SeedRow(i) == Row(i, SeedNames[i][1], SeedNames[i][2], <<"m">>, 50 * Tenths + i)

RECURSIVE RowsOf(_)
\* The rows with the ids of S, in id order
RowsOf(S) ==
    IF S = {} THEN <<>>
    ELSE LET m == SetMax(S) IN Append(RowsOf(S \ {m}), SeedRow(m))

SearchInit ==
    /\ \E S \in SUBSET (1..Len(SeedNames)) :
          /\ Cardinality(S) <= MaxRows
          /\ table = RowsOf(S)
          /\ seq = SetMax(S)
    /\ op = Event("init", <<>>)
    /\ exc = "none"
    /\ rows = <<>>
    /\ file = Empty
    /\ tree = table
    /\ selection = 0
    /\ first_name_entry = Empty
    /\ last_name_entry = Empty
    /\ course_entry = Empty
    /\ grade_entry = Empty
    /\ search_entry = Empty
    /\ dialog = "none"

SearchNext ==
    \/ \E search_text \in SearchTexts : Database_search_students(search_text)
    \/ Database_get_all_students

SearchSpec == SearchInit /\ [][SearchNext]_vars

\* The characters the csv dialect treats specially: the delimiter, the quote
\* character and a line break
CsvChars == {",", "\"", "\n"}

RECURSIVE TextsUpTo(_)
TextsUpTo(n) ==
    IF n = 0 THEN {Empty}
    ELSE LET shorter == TextsUpTo(n - 1)
         IN  shorter \cup {Append(s, c) : s \in shorter, c \in CsvChars}

ExportTexts == TextsUpTo(MaxLen)

\* A table of up to MaxRows records whose courses are two texts in turn

ExportInit ==
    /\ \E n \in 0..MaxRows : \E odd \in ExportTexts, even \in ExportTexts :
          /\ table = [i \in 1..n |->
                        Row(2 * i, <<"N","\"","g">>, <<"O",",","K">>,
                            IF i % 2 = 1 THEN odd ELSE even, 99 * Tenths + i)]
          /\ seq = 2 * n
    /\ op = Event("init", <<>>)
    /\ exc = "none"
    /\ rows = <<>>
    /\ file = Empty
    /\ tree = table
    /\ selection = 0
    /\ first_name_entry = Empty
    /\ last_name_entry = Empty
    /\ course_entry = Empty
    /\ grade_entry = Empty
    /\ search_entry = Empty
    /\ dialog = "none"

ExportNext ==
    \/ \E opened \in BOOLEAN : Database_export_to_csv(opened)
    \/ Database_get_all_students

ExportSpec == ExportInit /\ [][ExportNext]_vars

----------------------------------------------------------------------------
(* The Presentation Layer: class StudentManagementApp.  A handler runs to its *)
(* end in one step.  dialog is the message box it showed, exc the exception   *)
(* that left it uncaught (Tk reports it and the main loop goes on).           *)

\* What the user types into the entries
TypedFirstNames == {Empty, <<"A","n">>, <<"b">>}
TypedLastNames  == {Empty, <<"L">>}
TypedCourses    == {Empty, <<"m">>}
TypedGrades     == {<<"x">>, <<"n","a","n">>, <<"-","1">>, <<"0">>, <<"1","0","0">>,
                    <<"1","0","0",".","1">>}
TypedSearches   == {Empty, <<"a">>}

Handlers == {"App.add_student", "App.update_student", "App.delete_student",
             "App.search_students", "App.export_to_csv", "App.select_student"}

\* A key typed into an entry, after the message box of the last handler was closed
Typed ==
    /\ op' = Event("edit", <<>>)
    /\ exc' = "none"
    /\ dialog' = "none"
    /\ rows' = <<>>
    /\ file' = Empty
    /\ UNCHANGED <<store, tree, selection>>

TypeFirstName(text) ==
    /\ first_name_entry' = text
    /\ Typed
    /\ UNCHANGED <<last_name_entry, course_entry, grade_entry, search_entry>>

TypeLastName(text) ==
    /\ last_name_entry' = text
    /\ Typed
    /\ UNCHANGED <<first_name_entry, course_entry, grade_entry, search_entry>>

TypeCourse(text) ==
    /\ course_entry' = text
    /\ Typed
    /\ UNCHANGED <<first_name_entry, last_name_entry, grade_entry, search_entry>>

TypeGrade(text) ==
    /\ grade_entry' = text
    /\ Typed
    /\ UNCHANGED <<first_name_entry, last_name_entry, course_entry, search_entry>>

TypeSearch(text) ==
    /\ search_entry' = text
    /\ Typed
    /\ UNCHANGED <<first_name_entry, last_name_entry, course_entry, grade_entry>>

\* A faulty variant: the check of the course left out
InputValidNoCourse(first_name, last_name, course, grade) ==
    /\ first_name # Empty
    /\ last_name # Empty
    /\ ~grade.nan
    /\ GradeMin * Tenths <= grade.val
    /\ grade.val <= GradeMax * Tenths

\* not (not first_name or not last_name or not course or not (0 <= grade <= 100));
\* every comparison with nan is false
InputValid(first_name, last_name, course, grade) ==
    /\ first_name # Empty
    /\ last_name # Empty
    /\ course # Empty
    /\ ~grade.nan
    /\ GradeMin * Tenths <= grade.val
    /\ grade.val <= GradeMax * Tenths

\* A faulty variant: the rows loaded below the ones already shown
RefreshedTreeAppended(shown, t) == shown \o SelectAll(t)

\* refresh_students: every item deleted, then load_students inserts each row
\* of get_all_students at the end
RefreshedTree(shown, t) == SelectAll(t)

\* The text Tk holds for the id of an item
IdText(item) == IntStr(item.id)

App_add_student ==
    /\ NextRowid(table, seq) <= MaxId
    /\ op' = Event("App.add_student", <<Len(tree)>>)
    /\ rows' = <<>>
    /\ file' = Empty
    /\ UNCHANGED <<first_name_entry, last_name_entry, course_entry, grade_entry, search_entry>>
    /\ LET grade == FloatParse(grade_entry)
       IN  IF grade.ok /\ InputValid(first_name_entry, last_name_entry, course_entry, grade)
           THEN /\ DbAdd(first_name_entry, last_name_entry, course_entry, grade.val)
                /\ IF exc' = "none"
                   THEN /\ dialog' = "showinfo: Student added successfully"
                        /\ tree' = RefreshedTree(tree, table')
                        /\ selection' = 0
                   ELSE /\ dialog' = "none"
                        /\ UNCHANGED <<tree, selection>>
           ELSE /\ dialog' = "showerror: Invalid data"
                /\ exc' = "none"
                /\ UNCHANGED <<store, tree, selection>>

App_update_student ==
    /\ op' = Event("App.update_student", <<Len(tree)>>)
    /\ rows' = <<>>
    /\ file' = Empty
    /\ UNCHANGED <<first_name_entry, last_name_entry, course_entry, grade_entry, search_entry>>
    /\ IF selection = 0
       THEN \* self.tree.selection()[0] raises IndexError; only ValueError is caught
            /\ exc' = "IndexError"
            /\ dialog' = "none"
            /\ UNCHANGED <<store, tree, selection>>
       ELSE LET student_id == IdText(tree[selection])
                grade == FloatParse(grade_entry)
            IN  IF grade.ok /\ InputValid(first_name_entry, last_name_entry, course_entry, grade)
                THEN /\ DbUpdate(IntParse(student_id), first_name_entry, last_name_entry,
                                 course_entry, grade.val)
                     /\ IF exc' = "none"
                        THEN /\ dialog' = "showinfo: Student updated successfully"
                             /\ tree' = RefreshedTree(tree, table')
                             /\ selection' = 0
                        ELSE /\ dialog' = "none"
                             /\ UNCHANGED <<tree, selection>>
                ELSE /\ dialog' = "showerror: Invalid data"
                     /\ exc' = "none"
                     /\ UNCHANGED <<store, tree, selection>>

App_delete_student ==
    /\ op' = Event("App.delete_student", <<Len(tree)>>)
    /\ rows' = <<>>
    /\ file' = Empty
    /\ UNCHANGED <<first_name_entry, last_name_entry, course_entry, grade_entry, search_entry>>
    /\ IF selection = 0
       THEN \* except IndexError
            /\ exc' = "none"
            /\ dialog' = "showwarning: No student selected"
            /\ UNCHANGED <<store, tree, selection>>
       ELSE /\ DbDelete(IntParse(IdText(tree[selection])))
            /\ dialog' = "showinfo: Student deleted successfully"
            /\ tree' = RefreshedTree(tree, table')
            /\ selection' = 0

App_search_students ==
    /\ op' = Event("App.search_students", <<Len(tree)>>)
    /\ rows' = SelectLike(table, search_entry)
    /\ tree' = rows'
    /\ selection' = 0
    /\ exc' = "none"
    /\ dialog' = "none"
    /\ file' = Empty
    /\ UNCHANGED <<store, first_name_entry, last_name_entry, course_entry, grade_entry,
                   search_entry>>

\* chosen: the file dialog returned a path; opened: the path can be written
App_export_to_csv(chosen, opened) ==
    /\ op' = Event("App.export_to_csv", <<chosen, opened>>)
    /\ rows' = <<>>
    /\ UNCHANGED <<tree, selection, first_name_entry, last_name_entry, course_entry,
                   grade_entry, search_entry>>
    /\ IF chosen
       THEN /\ DbExport(opened)
            /\ dialog' = IF exc' = "none" THEN "showinfo: Data exported successfully"
                         ELSE "none"
       ELSE /\ UNCHANGED <<store, file>>
            /\ exc' = "none"
            /\ dialog' = "none"

\* <ButtonRelease-1> over item i of the tree, which the press selected, or
\* over no item (i = 0), which leaves the selection as it is
App_select_student(i) ==
    /\ op' = Event("App.select_student", <<i>>)
    /\ selection' = IF i = 0 THEN selection ELSE i
    /\ IF selection' = 0
       THEN \* except IndexError: pass
            UNCHANGED <<first_name_entry, last_name_entry, course_entry, grade_entry>>
       ELSE /\ first_name_entry' = tree[selection'].first_name
            /\ last_name_entry' = tree[selection'].last_name
            /\ course_entry' = tree[selection'].course
            /\ grade_entry' = FloatStr(tree[selection'].grade)
    /\ exc' = "none"
    /\ dialog' = "none"
    /\ rows' = <<>>
    /\ file' = Empty
    /\ UNCHANGED <<store, tree, search_entry>>

Next ==
    \/ \E text \in TypedFirstNames : TypeFirstName(text)
    \/ \E text \in TypedLastNames : TypeLastName(text)
    \/ \E text \in TypedCourses : TypeCourse(text)
    \/ \E text \in TypedGrades : TypeGrade(text)
    \/ \E text \in TypedSearches : TypeSearch(text)
    \/ \E chosen \in BOOLEAN, opened \in BOOLEAN : App_export_to_csv(chosen, opened)
    \/ App_add_student
    \/ App_update_student
    \/ App_delete_student
    \/ App_search_students
    \/ \E i \in 0..Len(tree) : App_select_student(i)

Spec == Init /\ [][Next]_vars

----------------------------------------------------------------------------
(* Vocabulary of the properties *)

Range(t) == {t[i] : i \in 1..Len(t)}

\* The field constraints of the data model: non-empty text, grade in [0,100]
NonEmptyText(s) == s # NULL /\ s # Empty
GradeInRange(g) == GradeMin * Tenths <= g /\ g <= GradeMax * Tenths
FieldsValid(first_name, last_name, course, grade) ==
    /\ NonEmptyText(first_name)
    /\ NonEmptyText(last_name)
    /\ NonEmptyText(course)
    /\ GradeInRange(grade)

\* list_all, the spec's name of get_all_students
list_all(t) == SelectAll(t)

UniqueIds(t) == \A i, j \in 1..Len(t) : t[i].id = t[j].id => i = j

----------------------------------------------------------------------------
(* Properties of the Presentation Layer (Spec) *)

\* The form passes the validation the spec describes: non-empty text fields
\* and a grade that is a number within [0,100]
FormValid ==
    /\ first_name_entry # Empty
    /\ last_name_entry # Empty
    /\ course_entry # Empty
    /\ FloatParse(grade_entry).ok
    /\ ~FloatParse(grade_entry).nan
    /\ GradeInRange(FloatParse(grade_entry).val)

AllStoredValid ==
    \A i \in 1..Len(table) :
        FieldsValid(table[i].first_name, table[i].last_name, table[i].course, table[i].grade)

\* C1: in every state the handlers reach, whatever the form holds, every
\* stored record has non-empty first_name, last_name and course and a grade in
\* [0,100]; an add or update whose form fails validation (an empty text field,
\* a grade that is no number or is outside [0,100]) leaves the table unchanged.
C1_StoredRecordsValid ==
    /\ []AllStoredValid
    /\ [][ (op'.name \in {"App.add_student", "App.update_student"} /\ ~FormValid)
           => table' = table ]_vars

\* An update of a selected record was refused for a grade above 100.
C1_Witness ==
    /\ op.name = "App.update_student"
    /\ selection # 0
    /\ dialog = "showerror: Invalid data"
    /\ FloatParse(grade_entry).ok
    /\ FloatParse(grade_entry).val > GradeMax * Tenths
    /\ Len(table) = 2

\* C7: when the delete handler or the update handler runs while no row of the
\* list is selected, for any form contents, it reports a user-visible warning
\* and the table is unchanged.
C7_NoSelectionWarns ==
    [][ (op'.name \in {"App.update_student", "App.delete_student"} /\ selection = 0)
        => (dialog' = "showwarning: No student selected" /\ table' = table) ]_vars

\* C8: every error of a user action is caught inside its handler and ends in
\* a dialog message: no exception leaves a handler, and when the export cannot
\* write its destination the handler shows an error dialog and not the success
\* message.
C8_ErrorsCaughtInHandler ==
    op.name \in Handlers
        => /\ exc = "none"
           /\ (op.name = "App.export_to_csv" /\ op.args = <<TRUE, FALSE>>)
                 => (dialog # "none" /\ dialog # "showinfo: Data exported successfully")

MutationDone ==
    {"showinfo: Student added successfully", "showinfo: Student updated successfully",
     "showinfo: Student deleted successfully"}

\* C9: after every successful add, update or delete through the handlers the
\* rows shown in the list are the sequence list_all returns at that moment, with
\* no stale, missing or duplicated row, also when the list showed a filtered
\* search result before.
C9_TreeShowsAllAfterMutation ==
    (op.name \in Handlers /\ dialog \in MutationDone)
        => /\ tree = list_all(table)
           /\ UniqueIds(tree)

\* An update succeeded while the list showed one of the two stored records
\* (a search result); afterwards both are shown.
C9_Witness ==
    /\ op.name = "App.update_student"
    /\ dialog = "showinfo: Student updated successfully"
    /\ op.args[1] = 1
    /\ Len(table) = 2
    /\ Len(tree) = 2
    /\ search_entry # Empty

----------------------------------------------------------------------------
(* Properties of the store called directly (StoreSpec) *)

\* C2: add called on the store fails with a constraint violation whenever the
\* grade is outside [0,100] or one of first_name, last_name, course is the
\* empty string, and list_all is then the same before and after the call.
C2_AddRejectsInvalid ==
    [][ (/\ op'.name = "Database.add_student"
         /\ \/ ~GradeInRange(op'.args[4])
            \/ \E k \in 1..3 : op'.args[k] = Empty)
        => (exc' = "IntegrityError" /\ list_all(table') = list_all(table)) ]_vars

\* C3: add with non-empty text fields and a grade in [0,100] succeeds; list_all
\* is then the previous records, unchanged, followed by one new record with the
\* given field values, whose id differs from every other id of the table.
C3_AddValidAppends ==
    [][ (/\ op'.name = "Database.add_student"
         /\ FieldsValid(op'.args[1], op'.args[2], op'.args[3], op'.args[4]))
        => LET old == list_all(table)
               new == list_all(table')
           IN  /\ exc' = "none"
               /\ Len(new) = Len(old) + 1
               /\ \A i \in 1..Len(old) : new[i] = old[i]
               /\ <<new[Len(new)].first_name, new[Len(new)].last_name,
                    new[Len(new)].course, new[Len(new)].grade>> = op'.args
               /\ new[Len(new)].id \notin Ids(old)
               /\ UniqueIds(new) ]_vars

\* An add succeeded in a table whose earlier record 1 was deleted: the new
\* record got id 2, not the freed id.
C3_Witness ==
    /\ op.name = "Database.add_student"
    /\ exc = "none"
    /\ FieldsValid(op.args[1], op.args[2], op.args[3], op.args[4])
    /\ Len(table) = 1
    /\ table[1].id = 2

C5_DeleteExactlyOne ==
    [][ op'.name = "Database.delete_student"
        => LET id == op'.args[1]
           IN  /\ exc' = "none"
               /\ Range(list_all(table')) = {r \in Range(list_all(table)) : r.id # id}
               /\ UniqueIds(list_all(table'))
               /\ Len(table') = Len(table) - (IF id \in Ids(table) THEN 1 ELSE 0)
               /\ id \notin Ids(table) => list_all(table') = list_all(table) ]_vars

\* A delete removed the first of two records and the second one is still listed.
C5_Witness ==
    /\ op.name = "Database.delete_student"
    /\ exc = "none"
    /\ op.args[1] = 1
    /\ Len(table) = 1
    /\ table[1].id = 2

----------------------------------------------------------------------------
(* Properties of the store's queries (SearchSpec, ExportSpec) *)

\* name contains s as a run of consecutive characters, up to ASCII case (the
\* text match of the store folds case: "Ivan" contains "An")
Contains(name, s) ==
    \E i \in 1..(Len(name) - Len(s) + 1) :
        \A k \in 1..Len(s) : Lower(name[i + k - 1]) = Lower(s[k])

\* C6: for every store state and every search string s, also one that holds
\* '%' or '_' or is empty, search(s) returns exactly the stored records whose
\* first_name or last_name contains s as a substring.
C6_SearchIsSubstringMatch ==
    op.name = "Database.search_students"
        => Range(rows) = {r \in Range(table) :
                            \/ Contains(r.first_name, op.args[1])
                            \/ Contains(r.last_name, op.args[1])}

RECURSIVE CsvRead(_, _, _, _, _, _)
\* A reader of the csv dialect the file is written in: the records of text f
\* from position i on, in state st, with the field and the record begun.
CsvRead(f, i, st, field, record, done) ==
    IF i > Len(f)
    THEN IF st = "start_record" THEN done ELSE Append(done, Append(record, field))
    ELSE LET c == f[i]
             eol == c \in {"\r", "\n"}
         IN  CASE st = "start_record" /\ eol ->
                    CsvRead(f, i + 1, "start_record", Empty, <<>>, done)
               [] st = "after_cr" /\ c = "\n" ->
                    CsvRead(f, i + 1, "start_record", Empty, <<>>, done)
               [] st = "after_cr" /\ c # "\n" ->
                    CsvRead(f, i, "start_record", Empty, <<>>, done)
               [] st = "in_quoted" /\ c = "\"" ->
                    CsvRead(f, i + 1, "quote_in_quoted", field, record, done)
               [] st = "in_quoted" /\ c # "\"" ->
                    CsvRead(f, i + 1, "in_quoted", Append(field, c), record, done)
               [] st = "quote_in_quoted" /\ c = "\"" ->
                    CsvRead(f, i + 1, "in_quoted", Append(field, c), record, done)
               [] st \in {"start_record", "start_field"} /\ c = "\"" ->
                    CsvRead(f, i + 1, "in_quoted", field, record, done)
               [] st \notin {"in_quoted", "after_cr"} /\ c = "," ->
                    CsvRead(f, i + 1, "start_field", Empty, Append(record, field), done)
               [] st \notin {"in_quoted", "after_cr", "start_record"} /\ eol ->
                    CsvRead(f, i + 1, IF c = "\r" THEN "after_cr" ELSE "start_record",
                            Empty, <<>>, Append(done, Append(record, field)))
               [] OTHER ->
                    CsvRead(f, i + 1, "in_field", Append(field, c), record, done)

CsvParse(f) == CsvRead(f, 1, "start_record", Empty, <<>>, <<>>)

\* C10: exporting a store of N records writes N+1 rows, the header row and
\* then one row per record in list_all order carrying its id, first_name,
\* last_name, course and grade, so that reading the file back recovers the same
\* field values; the export leaves the table unchanged.
C10_ExportRoundTrip ==
    [][ (op'.name = "Database.export_to_csv" /\ exc' = "none")
        => \A all \in {list_all(table)}, back \in {CsvParse(file')} :
               /\ Len(back) = Len(all) + 1
               /\ back[1] = HeaderCells
               /\ \A i \in 1..Len(all) :
                     /\ Len(back[i + 1]) = 5
                     /\ IntParse(back[i + 1][1]) = all[i].id
                     /\ back[i + 1][2] = all[i].first_name
                     /\ back[i + 1][3] = all[i].last_name
                     /\ back[i + 1][4] = all[i].course
                     /\ FloatParse(back[i + 1][5]).ok
                     /\ FloatParse(back[i + 1][5]).val = all[i].grade
               /\ table' = table ]_vars

\* An export wrote two records, one with a course that holds the delimiter
\* and one with a course that holds a quote character and a line break.
C10_Witness ==
    /\ op.name = "Database.export_to_csv"
    /\ exc = "none"
    /\ Len(table) = 2
    /\ table[1].course = <<",", ",">>
    /\ table[2].course = <<"\"", "\n">>
    /\ Len(CsvParse(file)) = 3

=============================================================================
